---- MODULE Spec2Model ----
(***************************************************************************)
(* Model of autocomment: synchronising GitHub pull requests with comments  *)
(* on the Jira tickets their descriptions link to.                         *)
(*                                                                         *)
(* Strings are TLA+ strings; the text algorithms (regex match, substring   *)
(* search, take_until, trim) work on their character sequences.            *)
(* Option values are tuples: None is <<>>, Some(x) is <<x>>.               *)
(***************************************************************************)
EXTENDS Integers, Sequences, FiniteSets, TLC

VARIABLES
    prs,        \* what GithubClient::get_pull_requests_for_repo returns
    client,     \* which JiraClient implementation is in use
    store,      \* the tracker's comments: ticket id -> sequence of rendered bodies
    down,       \* the remote operations that currently fail
    phase,      \* "idle" (no call of sync_comments in progress) or "running"
    idx,        \* position of the iterator over the pull requests
    lines,      \* the Ok values collected so far
    result,     \* Option of the last value returned by sync_comments
    calls,      \* log of the JiraClient calls made, all runs
    run,        \* number of calls of sync_comments started
    history,    \* one record per call of sync_comments: what it saw and returned
    changes,    \* number of changes of the remote state made by others
    arg,        \* input of the pure function under study
    ret         \* Option of its output

vars == <<prs, client, store, down, phase, idx, lines, result, calls, run,
          history, changes, arg, ret>>

-----------------------------------------------------------------------------
(* Bounds *)

MaxPRs == 2          \* longest pull-request list
MaxRuns == 2         \* calls of sync_comments in one behaviour
MaxChanges == 1      \* changes of the remote state made by others
MaxExisting == 2     \* most comments in a JiraCommentResponse given to contains_text

-----------------------------------------------------------------------------
(* Option and Result *)

None == <<>>
Some(x) == <<x>>
Unwrap(o) == o[1]

Ok(v) == [ok |-> TRUE, val |-> v]
Err(e) == [ok |-> FALSE, err |-> e]

-----------------------------------------------------------------------------
(* Characters and strings *)

\* the characters of a string, as a tuple
Chars(s) == SubSeq([i \in 1..Len(s) |-> SubSeq(s, i, i)], 1, Len(s))

RECURSIVE ToStr(_)
ToStr(cs) == IF cs = <<>> THEN "" ELSE Head(cs) \o ToStr(Tail(cs))

Range(f) == {f[i] : i \in DOMAIN f}

Digits == Range(Chars("0123456789"))
Letters == Range(Chars("abcdefghijklmnopqrstuvwxyzABCDEFGHIJKLMNOPQRSTUVWXYZ"))
WhiteSpace == {" ", "\n", "\t", "\r"}

IsDigit(c) == c \in Digits
IsWord(c) == c \in Letters \cup Digits \cup {"_"}
IsSpace(c) == c \in WhiteSpace

\* cs[i..] starts with lit
LitAt(cs, i, lit) ==
    /\ i + Len(lit) - 1 <= Len(cs)
    /\ \A j \in 1..Len(lit) : cs[i + j - 1] = lit[j]

\* str::find for a pattern: the least index (1-based) where pat occurs, 0 if none
Find(cs, pat) ==
    LET hits == {i \in 1..(Len(cs) - Len(pat) + 1) : LitAt(cs, i, pat)}
    IN  IF hits = {} THEN 0 ELSE CHOOSE i \in hits : \A j \in hits : i <= j

-----------------------------------------------------------------------------
(* The two services: what sync_comments is run against *)

Domain == "jira.dom"                  \* JiraClient::get_domain
TicketIds == {"A-1", "B-2"}           \* the tickets the tracker holds

GHPullRequest(full_name, html_url, title, body, created_at) ==
    [full_name |-> full_name, html_url |-> html_url, title |-> title,
     body |-> body, created_at |-> created_at]

PullRequestPool == {
    GHPullRequest("o/r", "https://gh/o/r/1", "one",
                  Some("fix [A-1](https://jira.dom/browse/A-1)\nmore"), "d1"),
    \* its URL extends the URL of the first; it links two tickets
    GHPullRequest("o/r", "https://gh/o/r/12", "twelve",
                  Some("[A-1](https://jira.dom/a) [B-2](https://jira.dom/b)"), "d2"),
    \* a link to another host
    GHPullRequest("o/r", "https://gh/o/r/3", "three",
                  Some("test body [B-2](https://other.dom/b)"), "d3"),
    GHPullRequest("o/r", "https://gh/o/r/4", "four", None, "d4") }

\* rendered bodies of comments written by others
OtherComments == {"see https://gh/o/r/1 asdadf"}
SeedComments == {"asdfageta"} \cup OtherComments

\* the lists the pull-request source can return: no pull request twice
PullRequestLists ==
    UNION { { l \in [1..n -> PullRequestPool] :
                \A i, j \in 1..n : l[i] = l[j] => i = j } : n \in 0..MaxPRs }

Ops == {"list", "get", "post"}

-----------------------------------------------------------------------------
(* lib.rs: take_until, and str::trim *)

\* &self[..idx] for the first idx where limit occurs, else self
take_until(cs, limit) ==
    LET at == Find(cs, <<limit>>)
    IN  IF at # 0 THEN SubSeq(cs, 1, at - 1) ELSE cs

RECURSIVE TrimStart(_)
TrimStart(cs) ==
    IF cs # <<>> /\ IsSpace(Head(cs)) THEN TrimStart(Tail(cs)) ELSE cs

RECURSIVE TrimEnd(_)
TrimEnd(cs) ==
    IF cs # <<>> /\ IsSpace(cs[Len(cs)])
    THEN TrimEnd(SubSeq(cs, 1, Len(cs) - 1))
    ELSE cs

Trim(cs) == TrimEnd(TrimStart(cs))

-----------------------------------------------------------------------------
(* error.rs *)

\* Error::AutocommentError(String); impl From<String> for Error
AutocommentError(cause) == [kind |-> "AutocommentError", cause |-> cause]

\* the failure of a remote call (a reqwest error or a non-success status)
TransportError(op, ticket_id) ==
    [kind |-> "TransportError", op |-> op, ticket_id |-> ticket_id]

\* #[error("Error occurred: {0}")] / #[error(transparent)]
ErrorDisplay(e) ==
    IF e.kind = "AutocommentError"
    THEN "Error occurred: " \o e.cause
    ELSE "transport error: " \o e.op \o " " \o e.ticket_id

-----------------------------------------------------------------------------
(* jira.rs: the comment document.  github.rs builds it through             *)
(* JiraCommentRequest::new, JiraCommentElement::new and the with_* setters. *)

JiraCommentAttrs(href) == [href |-> href]

JiraCommentElement_new(comment_type) ==
    [version |-> None, type |-> comment_type, content |-> <<>>,
     text |-> None, marks |-> <<>>, attrs |-> None]

with_content(e, content) == [e EXCEPT !.content = content]
with_text(e, text) == [e EXCEPT !.text = Some(text)]
with_marks(e, marks) == [e EXCEPT !.marks = marks]
with_attrs(e, attrs) == [e EXCEPT !.attrs = Some(attrs)]

\* the request wraps a "doc" element of version 1
JiraCommentRequest_new ==
    [body |-> [JiraCommentElement_new("doc") EXCEPT !.version = Some(1)]]

request_with_content(req, content) == [req EXCEPT !.body.content = content]

-----------------------------------------------------------------------------
(* github.rs: GHPullRequest::build_jira_comment *)

\* mutant: the line is not trimmed
FirstLineNoTrim(pr_body) == ToStr(take_until(Chars(pr_body), "\n"))

\* pr_body.as_str().take_until('\n').trim().to_string()
FirstLine(pr_body) == ToStr(Trim(take_until(Chars(pr_body), "\n")))

\* mutant: an empty description is refused like an absent one
description_or_error_empty(self) ==
    IF self.body = None \/ self.body = Some("")
    THEN Err(AutocommentError(
             "Pull Request " \o self.html_url \o " has an invalid description"))
    ELSE Ok(Unwrap(self.body))

\* self.body.clone().ok_or(Error::from(format!(...)))
description_or_error(self) ==
    IF self.body = None
    THEN Err(AutocommentError(
             "Pull Request " \o self.html_url \o " has an invalid description"))
    ELSE Ok(Unwrap(self.body))

BuildComment(self) ==
    IF ~description_or_error(self).ok
    THEN description_or_error(self)
    ELSE
      LET pr_body == description_or_error(self).val
          jira_content == <<
            with_content(JiraCommentElement_new("paragraph"), <<
                with_text(JiraCommentElement_new("text"),
                          "Pull Request in " \o self.full_name \o ": "),
                with_marks(
                    with_text(JiraCommentElement_new("text"), self.title),
                    << with_attrs(JiraCommentElement_new("link"),
                                  JiraCommentAttrs(Some(self.html_url))) >>) >>),
            with_content(JiraCommentElement_new("paragraph"), <<
                with_text(JiraCommentElement_new("text"), FirstLine(pr_body)) >>),
            with_content(JiraCommentElement_new("paragraph"), <<
                with_text(JiraCommentElement_new("text"),
                          "Created at: " \o self.created_at) >>) >>
      IN  Ok(request_with_content(JiraCommentRequest_new, jira_content))

\* BuildComment of the pull requests of the pool, computed once
CommentTable == [pr \in PullRequestPool |-> BuildComment(pr)]

build_jira_comment(self) ==
    IF self \in PullRequestPool THEN CommentTable[self] ELSE BuildComment(self)

-----------------------------------------------------------------------------
(* The tracker's side of a posted comment *)

\* what the tracker shows for a comment posted with this document: the
\* rendering is the tracker's; it may or may not show the link's target
TrackerRender(request, faithful) ==
    LET p1 == request.body.content[1].content
        href == Unwrap(Unwrap(p1[2].marks[1].attrs).href)
    IN  IF faithful
        THEN Unwrap(p1[1].text) \o "<a href=\"" \o href \o "\">"
                 \o Unwrap(p1[2].text) \o "</a>"
        ELSE Unwrap(p1[1].text) \o Unwrap(p1[2].text)

\* every rendered body the tracker can hold
KnownComments ==
    SeedComments \cup
    { TrackerRender(CommentTable[pr].val, f) :
        pr \in {p \in PullRequestPool : p.body # None}, f \in BOOLEAN }

PoolUrls == {pr.html_url : pr \in PullRequestPool}

-----------------------------------------------------------------------------
(* jira.rs: JiraCommentResponse *)

\* str::contains, by search
Search(s, pat) == Find(Chars(s), Chars(pat)) # 0

\* Search of the pool's URLs in the bodies the tracker can hold, computed once
ContainsTable == [p \in KnownComments \X PoolUrls |-> Search(p[1], p[2])]

\* str::contains
StrContains(s, pat) ==
    IF s \in KnownComments /\ pat \in PoolUrls
    THEN ContainsTable[<<s, pat>>]
    ELSE Search(s, pat)

JiraCommentResponse(total, comments) == [total |-> total, comments |-> comments]

\* mutant: a response that says it holds no comment is not searched
contains_text_if_total(self, text) ==
    /\ self.total > 0
    /\ \E i \in 1..Len(self.comments) : Search(self.comments[i], text)

\* mutant: the body is compared with the text, not searched for it
contains_text_eq(self, text) ==
    \E i \in 1..Len(self.comments) : self.comments[i] = text

\* mutant: a pull request this process has posted for counts as commented
contains_text_or_posted(self, text) ==
    \/ \E i \in 1..Len(self.comments) : Search(self.comments[i], text)
    \/ \E k \in 1..Len(calls) :
         calls[k].op = "post" /\ calls[k].ok /\ prs[calls[k].pr].html_url = text

\* mutant: once the run in progress has posted a comment, every later pull
\* request of the run counts as commented
contains_text_or_run_posted(self, text) ==
    \/ \E i \in 1..Len(self.comments) : Search(self.comments[i], text)
    \/ \E k \in 1..Len(calls) :
         calls[k].op = "post" /\ calls[k].ok /\ calls[k].run = run

\* mutant: no comment is looked at
contains_text_never(self, text) ==
    \E i \in {} : Search(self.comments[i], text)

\* mutant: only the first comment is searched
contains_text_first(self, text) ==
    self.comments # <<>> /\ Search(self.comments[1], text)

\* self.comments.iter().any(|comment| comment.rendered_body.contains(&text))
contains_text(self, text) ==
    \E i \in 1..Len(self.comments) : StrContains(self.comments[i], text)

-----------------------------------------------------------------------------
(* jira.rs: parse_jira_ticket_number                                       *)
(* the regex \[(\w+\-\d+)\]\(https://DOMAIN\S+\) with the dots of DOMAIN   *)
(* escaped, searched left to right; the first match's group 1 is returned. *)

\* domain.replace(".", r"\."): every character of the domain, dots included,
\* is matched as itself
DomainPattern(domain) == Chars(domain)

\* the last index of the run of \w (\d, \S) characters that starts at i
\* (i - 1 when cs[i] is not one)
RECURSIVE WordRunEnd(_, _)
WordRunEnd(cs, i) ==
    IF i <= Len(cs) /\ IsWord(cs[i]) THEN WordRunEnd(cs, i + 1) ELSE i - 1

RECURSIVE DigitRunEnd(_, _)
DigitRunEnd(cs, i) ==
    IF i <= Len(cs) /\ IsDigit(cs[i]) THEN DigitRunEnd(cs, i + 1) ELSE i - 1

RECURSIVE NonSpaceRunEnd(_, _)
NonSpaceRunEnd(cs, i) ==
    IF i <= Len(cs) /\ ~IsSpace(cs[i]) THEN NonSpaceRunEnd(cs, i + 1) ELSE i - 1

\* the literal part of the regex between the key and the domain: \]\(https://
LinkOpen == Chars("](https://")

\* \S+\) matched from index u: one or more non-space characters, then ")"
TailMatches(cs, u) ==
    \E e \in (u + 1)..NonSpaceRunEnd(cs, u) : cs[e] = ")"

\* the values group 1 can take in a match of the regex starting at index s:
\* "[", \w+ ending at k1, "-", \d+ ending at k2, "](https://", the domain,
\* \S+, ")"
CapturesAt(cs, s, dom) ==
    IF ~LitAt(cs, s, <<"[">>) THEN {}
    ELSE
      UNION {
        { SubSeq(cs, s + 1, k2) :
            k2 \in { k \in (k1 + 2)..DigitRunEnd(cs, k1 + 2) :
                       /\ LitAt(cs, k + 1, LinkOpen \o dom)
                       /\ TailMatches(cs, k + 1 + Len(LinkOpen) + Len(dom)) } } :
        k1 \in { k \in (s + 1)..WordRunEnd(cs, s + 1) :
                   LitAt(cs, k + 1, <<"-">>) } }

\* mutant: the last match found from index s on
RECURSIVE LastCapture(_, _, _)
LastCapture(cs, s, dom) ==
    IF s > Len(cs) THEN None
    ELSE LET rest == LastCapture(cs, s + 1, dom)
             caps == CapturesAt(cs, s, dom)
         IN  IF rest # None THEN rest
             ELSE IF caps # {} THEN Some(CHOOSE g \in caps : TRUE)
             ELSE None

\* captures_iter, left to right: the first match found from index s on
RECURSIVE FirstCapture(_, _, _)
FirstCapture(cs, s, dom) ==
    IF s > Len(cs) THEN None
    ELSE LET caps == CapturesAt(cs, s, dom)
         IN  IF caps # {}
             THEN Some(CHOOSE g \in caps : TRUE)
             ELSE FirstCapture(cs, s + 1, dom)

FirstTicket(pr_body, domain) ==
    LET group == FirstCapture(Chars(pr_body), 1, DomainPattern(domain))
    IN  IF group = None THEN None ELSE Some(ToStr(Unwrap(group)))

PoolBodies == {Unwrap(pr.body) : pr \in {p \in PullRequestPool : p.body # None}}

\* FirstTicket of the pool's descriptions for the tracker's domain, computed once
TicketTable == [b \in PoolBodies |-> FirstTicket(b, Domain)]

\* mutant: the link may be to any host
parse_any_host(pr_body, domain) == FirstTicket(pr_body, "")

parse_jira_ticket_number(pr_body, domain) ==
    IF pr_body \in PoolBodies /\ domain = Domain
    THEN TicketTable[pr_body]
    ELSE FirstTicket(pr_body, domain)

-----------------------------------------------------------------------------
(* jira.rs: JiraClient, as DefaultJiraClient ("Default") or MockJiraClient *)
(* ("Mock": no call fails, post stores nothing, get ignores the ticket id  *)
(* and returns its data, so every ticket of store holds the same comments) *)

get_jira_comments(ticket_id) ==
    IF "get" \in down
    THEN Err(TransportError("get", ticket_id))
    ELSE Ok(JiraCommentResponse(Len(store[ticket_id]), store[ticket_id]))

post_jira_comment(ticket_id, text) ==
    IF "post" \in down
    THEN Err(TransportError("post", ticket_id))
    ELSE Ok(<<>>)

\* github.rs: GithubClient::get_pull_requests_for_repo
get_pull_requests_for_repo ==
    IF "list" \in down THEN Err(TransportError("list", "")) ELSE Ok(prs)

-----------------------------------------------------------------------------
(* lib.rs: process_pull_request                                            *)
(* The value is the Result returned, with the JiraClient calls made, in    *)
(* order, and the Option of the comment the tracker received.              *)

\* seen: the rendered bodies a successful get returned
Call(op, ticket_id, ok, seen) ==
    [op |-> op, ticket_id |-> ticket_id, ok |-> ok, seen |-> seen]

Outcome(r, trace, posted) == [ret |-> r, trace |-> trace, posted |-> posted]

\* mutant: the path of the ticket page is left out
TicketUrlNoBrowse(jira_id) == "https://" \o Domain \o "/" \o jira_id

TicketUrl(jira_id) == "https://" \o Domain \o "/browse/" \o jira_id

AddedLine(ticket_url, html_url) ==
    "Added Jira Comment on ticket " \o ticket_url \o " from " \o html_url \o "."

AlreadyLine(ticket_url, html_url) ==
    "Jira ticket " \o ticket_url \o " already has comment for " \o html_url \o "."

NoTicketLine(html_url) == "PR " \o html_url \o " does not contain a Jira ticket!"

NoDescriptionError(html_url) ==
    AutocommentError("PR " \o html_url \o " does not have a description!")

process_pull_request(pr) ==
    IF pr.body = None
    THEN Outcome(Err(NoDescriptionError(pr.html_url)), <<>>, None)
    ELSE
    LET parsed == parse_jira_ticket_number(Unwrap(pr.body), Domain) IN
    IF parsed = None
    THEN Outcome(Ok(NoTicketLine(pr.html_url)), <<>>, None)
    ELSE
    LET jira_id == Unwrap(parsed)
        ticket_url == TicketUrl(jira_id)
        comments == get_jira_comments(jira_id)
    IN
    IF ~comments.ok
    THEN Outcome(comments, <<Call("get", jira_id, FALSE, <<>>)>>, None)
    ELSE IF contains_text(comments.val, pr.html_url)
    THEN Outcome(Ok(AlreadyLine(ticket_url, pr.html_url)),
                 <<Call("get", jira_id, TRUE, comments.val.comments)>>, None)
    ELSE
    LET comment == build_jira_comment(pr) IN
    IF ~comment.ok
    THEN Outcome(comment,
                 <<Call("get", jira_id, TRUE, comments.val.comments)>>, None)
    ELSE
    LET posting == post_jira_comment(jira_id, comment.val) IN
    IF ~posting.ok
    THEN Outcome(posting,
                 <<Call("get", jira_id, TRUE, comments.val.comments),
                   Call("post", jira_id, FALSE, <<>>)>>,
                 None)
    ELSE Outcome(Ok(AddedLine(ticket_url, pr.html_url)),
                 <<Call("get", jira_id, TRUE, comments.val.comments),
                   Call("post", jira_id, TRUE, <<>>)>>,
                 Some([ticket_id |-> jira_id, request |-> comment.val]))

-----------------------------------------------------------------------------
(* lib.rs: sync_comments                                                   *)
(* .iter().map(|pr| process_pull_request(jira_client, pr)).collect() into  *)
(* Result<Vec<String>, Error>: the items are taken one at a time, an Ok    *)
(* value is pushed, the first Err ends the iteration and is returned.      *)

\* mutant: an item that failed is skipped (filter_map(Result::ok))
CollectStepSkipErr(acc, r) ==
    IF r.ok
    THEN [stop |-> FALSE, acc |-> Append(acc, r.val)]
    ELSE [stop |-> FALSE, acc |-> acc]

\* mutant: the new line is put in front
CollectStepPrepend(acc, r) ==
    IF r.ok
    THEN [stop |-> FALSE, acc |-> <<r.val>> \o acc]
    ELSE [stop |-> TRUE, ret |-> Err(r.err)]

CollectStep(acc, r) ==
    IF r.ok
    THEN [stop |-> FALSE, acc |-> Append(acc, r.val)]
    ELSE [stop |-> TRUE, ret |-> Err(r.err)]

RemoteState == [store |-> store, down |-> down]

\* history: the run in progress no longer sees the remote state it started with
Touched ==
    IF phase = "running"
    THEN [history EXCEPT ![Len(history)].steady = FALSE]
    ELSE history

Returned(h, r) == [h EXCEPT ![Len(h)].ret = Some(r)]

SyncStart ==
    /\ phase = "idle"
    /\ run < MaxRuns
    /\ run' = run + 1
    /\ LET listed == get_pull_requests_for_repo
           entry == [remote |-> RemoteState, steady |-> TRUE, ret |-> None]
       IN  IF listed.ok
           THEN /\ phase' = "running"
                /\ idx' = 1
                /\ lines' = <<>>
                /\ result' = None
                /\ history' = Append(history, entry)
           ELSE /\ phase' = "idle"
                /\ result' = Some(Err(listed.err))
                /\ history' = Returned(Append(history, entry), Err(listed.err))
                /\ UNCHANGED <<idx, lines>>
    /\ UNCHANGED <<prs, client, store, down, calls, changes, arg, ret>>

Logged(trace) ==
    [i \in 1..Len(trace) |->
        [run |-> run, pr |-> idx, op |-> trace[i].op,
         ticket_id |-> trace[i].ticket_id, ok |-> trace[i].ok,
         seen |-> trace[i].seen]]

ProcessPullRequest ==
    /\ phase = "running"
    /\ idx <= Len(prs)
    /\ LET out == process_pull_request(prs[idx])
           step == CollectStep(lines, out.ret)
       IN  /\ calls' = calls \o Logged(out.trace)
           /\ \E faithful \in BOOLEAN :
                LET stored ==
                      IF out.posted # None /\ client = "Default"
                      THEN [store EXCEPT ![Unwrap(out.posted).ticket_id] =
                              Append(@, TrackerRender(Unwrap(out.posted).request,
                                                      faithful))]
                      ELSE store
                    seen == IF stored # store THEN Touched ELSE history
                IN  /\ store' = stored
                    /\ IF step.stop
                       THEN /\ phase' = "idle"
                            /\ result' = Some(step.ret)
                            /\ history' = Returned(seen, step.ret)
                            /\ UNCHANGED <<idx, lines>>
                       ELSE /\ idx' = idx + 1
                            /\ lines' = step.acc
                            /\ history' = seen
                            /\ UNCHANGED <<phase, result>>
    /\ UNCHANGED <<prs, client, down, run, changes, arg, ret>>

\* the iterator is exhausted: collect returns Ok of the vector
SyncReturn ==
    /\ phase = "running"
    /\ idx > Len(prs)
    /\ phase' = "idle"
    /\ result' = Some(Ok(lines))
    /\ history' = Returned(history, Ok(lines))
    /\ UNCHANGED <<prs, client, store, down, idx, lines, calls, run, changes,
                   arg, ret>>

\* somebody else comments on a ticket
TrackerWrite ==
    /\ client = "Default"
    /\ changes < MaxChanges
    /\ changes' = changes + 1
    /\ \E t \in TicketIds, c \in OtherComments :
         store' = [store EXCEPT ![t] = Append(@, c)]
    /\ history' = Touched
    /\ UNCHANGED <<prs, client, down, phase, idx, lines, result, calls, run,
                   arg, ret>>

\* a remote operation starts or stops failing
TransportChange ==
    /\ client = "Default"
    /\ changes < MaxChanges
    /\ changes' = changes + 1
    /\ \E op \in Ops :
         down' = IF op \in down THEN down \ {op} ELSE down \cup {op}
    /\ history' = Touched
    /\ UNCHANGED <<prs, client, store, phase, idx, lines, result, calls, run,
                   arg, ret>>

syncVars == <<prs, client, store, down, phase, idx, lines, result, calls, run,
              history, changes>>

Init ==
    /\ prs \in PullRequestLists
    /\ client \in {"Mock", "Default"}
    /\ \/ /\ client = "Mock"
          /\ \E data \in {<<>>} \cup {<<c>> : c \in SeedComments} :
               store = [t \in TicketIds |-> data]
       \/ /\ client = "Default"
          /\ store = [t \in TicketIds |-> <<>>]
    /\ down = {}
    /\ phase = "idle"
    /\ idx = 1
    /\ lines = <<>>
    /\ result = None
    /\ calls = <<>>
    /\ run = 0
    /\ history = <<>>
    /\ changes = 0
    /\ arg = <<>>
    /\ ret = None

Next ==
    \/ SyncStart
    \/ ProcessPullRequest
    \/ SyncReturn
    \/ TrackerWrite
    \/ TransportChange

Spec == Init /\ [][Next]_vars

-----------------------------------------------------------------------------
(* The functions on their own: arg is the input, ret the Option of the     *)
(* value returned; sync_comments is not running.                           *)

NoSync ==
    /\ prs = <<>>
    /\ client = "Mock"
    /\ store = [t \in TicketIds |-> <<>>]
    /\ down = {}
    /\ phase = "idle"
    /\ idx = 1
    /\ lines = <<>>
    /\ result = None
    /\ calls = <<>>
    /\ run = 0
    /\ history = <<>>
    /\ changes = 0

(* parse_jira_ticket_number: texts assembled from Markdown links, whose    *)
(* parts arg.links records                                                 *)

Link(key, host, tail) == [key |-> key, host |-> host, tail |-> tail]
LinkText(l) == "[" \o l.key \o "](https://" \o l.host \o l.tail \o ")"

LinkKeys == {"A-1", "AB_3-45", "A1", "-7"}
LinkHosts == {"jira.dom", "jiraxdom", "jira.dom.evil.com", "jira.domx",
              "my.jira.dom", "j.d", "jxd"}
LinkTails == {"/a", "", ":8443/browse/x?y=(z)"}
ParseDomains == {"jira.dom", "j.d"}

Links == {Link(k, h, t) : k \in LinkKeys, h \in LinkHosts, t \in LinkTails}

\* links for the texts that hold two
PairLinks == {Link("A-1", "jira.dom", "/a"), Link("B-2", "jira.dom", "/b"),
              Link("C-3", "jira.dom.evil.com", "/c"), Link("D4", "jira.dom", "/d"),
              Link("E-5", "other.dom", "/e")}

ParseTexts ==
    { [text |-> "", links |-> <<>>],
      [text |-> "dsaaerl; are aerg \nasfwqrwrv\tasdfar w", links |-> <<>>] }
    \cup { [text |-> LinkText(l), links |-> <<l>>] : l \in Links }
    \cup { [text |-> "test body " \o LinkText(l) \o " asdfar w\nasdf",
            links |-> <<l>>] : l \in PairLinks }
    \cup { [text |-> LinkText(l1) \o " and\n" \o LinkText(l2),
            links |-> <<l1, l2>>] : l1 \in PairLinks, l2 \in PairLinks }

ParseInputs ==
    { [text |-> t.text, links |-> t.links, domain |-> d] :
        t \in ParseTexts, d \in ParseDomains }

InitParse == NoSync /\ arg \in ParseInputs /\ ret = None

ParseApply ==
    /\ ret = None
    /\ ret' = Some(parse_jira_ticket_number(arg.text, arg.domain))
    /\ UNCHANGED <<arg, syncVars>>

NextParse == ParseApply

SpecParse == InitParse /\ [][NextParse]_vars

(* JiraCommentResponse::contains_text *)

RenderedBodies == {"", "ab", "xaby", "aB", "b a"}
Needles == {"", "ab", "AB", "b", "aby", "xabyz"}
Totals == {0, 2}

ContainsInputs ==
    { [total |-> n, comments |-> c, needle |-> t] :
        n \in Totals,
        c \in UNION { [1..m -> RenderedBodies] : m \in 0..MaxExisting },
        t \in Needles }

InitContains == NoSync /\ arg \in ContainsInputs /\ ret = None

ContainsApply ==
    /\ ret = None
    /\ ret' = Some(contains_text(JiraCommentResponse(arg.total, arg.comments),
                                 arg.needle))
    /\ UNCHANGED <<arg, syncVars>>

NextContains == ContainsApply

SpecContains == InitContains /\ [][NextContains]_vars

(* GHPullRequest::build_jira_comment *)

Descriptions ==
    { None, Some(""), Some("test body\nwith two lines"), Some("one line"),
      Some("  lead and trail \t\nsecond\nthird"), Some("\nsecond"),
      Some(" \t "), Some("a\r\nb") }

BuildInputs ==
    { GHPullRequest(n, u, t, b, c) :
        n \in {"test", "o/r"},
        u \in {"https://url/org/repo", "https://gh/o/r/1"},
        t \in {"test title", ""},
        b \in Descriptions,
        c \in {"datetime", "2020-01-02T03:04:05Z"} }

InitBuild == NoSync /\ arg \in BuildInputs /\ ret = None

BuildApply ==
    /\ ret = None
    /\ ret' = Some(build_jira_comment(arg))
    /\ UNCHANGED <<arg, syncVars>>

NextBuild == BuildApply

SpecBuild == InitBuild /\ [][NextBuild]_vars

-----------------------------------------------------------------------------
(* What the claims are stated with *)

\* the ticket each description of the pool links first on the tracker's domain
ExpectedTicket ==
    [u \in PoolUrls |->
        CASE u = "https://gh/o/r/1" -> Some("A-1")
          [] u = "https://gh/o/r/12" -> Some("A-1")
          [] OTHER -> None]

\* pat occurs in s
Occurs(pat, s) ==
    \E k \in 0..(Len(s) - Len(pat)) : SubSeq(s, k + 1, k + Len(pat)) = pat

Mentions == [p \in KnownComments \X PoolUrls |-> Occurs(p[2], p[1])]

\* some body of the sequence mentions the URL
Mentioned(seen, url) == \E i \in 1..Len(seen) : Mentions[<<seen[i], url>>]

PostedLine(k, url) ==
    "Added Jira Comment on ticket https://jira.dom/browse/" \o k
        \o " from " \o url \o "."

PresentLine(k, url) ==
    "Jira ticket https://jira.dom/browse/" \o k
        \o " already has comment for " \o url \o "."

NoReferenceLine(url) == "PR " \o url \o " does not contain a Jira ticket!"

IsPostedLine(line) ==
    Len(line) >= 29 /\ SubSeq(line, 1, 29) = "Added Jira Comment on ticket "

\* the indices of the calls of run r made for its pull request i
CallsFor(r, i) == {k \in 1..Len(calls) : calls[k].run = r /\ calls[k].pr = i}
PostsFor(r, i) == {k \in CallsFor(r, i) : calls[k].op = "post"}
CallsIn(r) == {k \in 1..Len(calls) : calls[k].run = r}

Finished(r) == history[r].ret # None
RetOf(r) == Unwrap(history[r].ret)

\* the line of pull request i of run r, where there is one: in the vector
\* being collected, or in the vector returned
HasLine(r, i) ==
    \/ r = run /\ phase = "running" /\ i < idx
    \/ Finished(r) /\ RetOf(r).ok /\ i <= Len(RetOf(r).val)
LineOf(r, i) ==
    IF r = run /\ phase = "running" THEN lines[i] ELSE RetOf(r).val[i]

-----------------------------------------------------------------------------
(* C1 *)

\* C1: a pull request without a description gives a line for that item and
\* does not fail the run: unless a remote call fails, sync_comments returns
\* Ok with one line per pull request.
C1_MissingDescriptionIsALine ==
    \A r \in 1..Len(history) :
        ( /\ Finished(r)
          /\ \E i \in 1..Len(prs) : prs[i].body = None
          /\ ~(~RetOf(r).ok /\ RetOf(r).err.kind = "TransportError") )
        => RetOf(r).ok /\ Len(RetOf(r).val) = Len(prs)

-----------------------------------------------------------------------------
(* C2 *)

\* C2: when a get_jira_comments or post_jira_comment call fails, the run
\* returns that error and nothing else (no lines), and no call follows the
\* failed one in that run.
C2_FailureAbortsRun ==
    \A k \in 1..Len(calls) :
        ~calls[k].ok =>
            /\ history[calls[k].run].ret =
                 Some(Err([kind |-> "TransportError", op |-> calls[k].op,
                           ticket_id |-> calls[k].ticket_id]))
            /\ \A j \in 1..Len(calls) : j > k => calls[j].run # calls[k].run

\* a call failed for the second pull request, after a comment was posted for
\* the first
C2_Witness ==
    \E k \in 1..Len(calls) :
        /\ ~calls[k].ok
        /\ calls[k].pr = 2
        /\ \E j \in 1..Len(calls) :
             /\ calls[j].run = calls[k].run
             /\ calls[j].pr = 1 /\ calls[j].op = "post" /\ calls[j].ok
        /\ Finished(calls[k].run)

-----------------------------------------------------------------------------
(* C3 *)

\* C3: a pull request whose ticket already has a comment mentioning its URL
\* gets no post call, and its line is the already-present line with the
\* ticket URL and the pull request URL.
C3_AlreadyPresentNoPost ==
    \A k \in 1..Len(calls) :
        LET r == calls[k].run
            i == calls[k].pr
            url == prs[i].html_url
        IN  ( /\ calls[k].op = "get" /\ calls[k].ok
              /\ Mentioned(calls[k].seen, url) )
            => /\ PostsFor(r, i) = {}
               /\ HasLine(r, i) =>
                    LineOf(r, i) = PresentLine(calls[k].ticket_id, url)
               /\ (r = run /\ phase = "running") => i < idx

\* a run returned the already-present line for a pull request, without a post
C3_Witness ==
    \E r \in 1..Len(history), i \in 1..Len(prs) :
        /\ Finished(r) /\ RetOf(r).ok
        /\ RetOf(r).val[i] = PresentLine("A-1", prs[i].html_url)
        /\ PostsFor(r, i) = {}
        /\ \E k \in CallsFor(r, i) : Mentioned(calls[k].seen, prs[i].html_url)

-----------------------------------------------------------------------------
(* C4 *)

\* C4: a pull request that links ticket K, with no comment on K mentioning
\* its URL and both calls succeeding, gets exactly one post call, for K, and
\* the posted line with https://{domain}/browse/K and its URL; the post calls
\* of a run are as many as its posted lines, in the vector being collected
\* and in the vector returned.
C4_PostedOnce ==
    /\ \A k \in 1..Len(calls) :
        LET r == calls[k].run
            i == calls[k].pr
            url == prs[i].html_url
        IN  ( /\ calls[k].op = "get" /\ calls[k].ok
              /\ ~Mentioned(calls[k].seen, url)
              /\ \A j \in PostsFor(r, i) : calls[j].ok )
            => /\ Cardinality(PostsFor(r, i)) = 1
               /\ ExpectedTicket[url] # None
               /\ \A j \in PostsFor(r, i) :
                    calls[j].ticket_id = Unwrap(ExpectedTicket[url])
               /\ HasLine(r, i) =>
                    LineOf(r, i) = PostedLine(Unwrap(ExpectedTicket[url]), url)
               /\ (r = run /\ phase = "running") => i < idx
    /\ \A r \in 1..Len(history) :
        (Finished(r) /\ RetOf(r).ok) =>
            Cardinality({k \in CallsIn(r) : calls[k].op = "post"}) =
            Cardinality({i \in 1..Len(RetOf(r).val) : IsPostedLine(RetOf(r).val[i])})
    /\ phase = "running" =>
            Cardinality({k \in CallsIn(run) : calls[k].op = "post"}) =
            Cardinality({i \in 1..Len(lines) : IsPostedLine(lines[i])})

\* a run over two pull requests returned one posted line and made one post
C4_Witness ==
    \E r \in 1..Len(history) :
        /\ Finished(r) /\ RetOf(r).ok
        /\ Len(prs) = 2
        /\ RetOf(r).val[1] = PostedLine("A-1", prs[1].html_url)
        /\ RetOf(r).val[2] = NoReferenceLine(prs[2].html_url)
        /\ Cardinality({k \in CallsIn(r) : calls[k].op = "post"}) = 1

-----------------------------------------------------------------------------
(* C5 *)

\* C5: an Ok result has one line per pull request, the i-th line being the
\* line of the i-th pull request; no pull request gives an empty result.
C5_OneLinePerPullRequest ==
    \A r \in 1..Len(history) :
        (Finished(r) /\ RetOf(r).ok) =>
            /\ Len(RetOf(r).val) = Len(prs)
            /\ \A i \in 1..Len(prs) :
                 LET url == prs[i].html_url
                     line == RetOf(r).val[i]
                 IN  IF ExpectedTicket[url] = None
                     THEN line = NoReferenceLine(url)
                     ELSE line \in { PostedLine(Unwrap(ExpectedTicket[url]), url),
                                     PresentLine(Unwrap(ExpectedTicket[url]), url) }

\* a run returned two lines of different kinds, in the order of the list
C5_Witness ==
    \E r \in 1..Len(history) :
        /\ Finished(r) /\ RetOf(r).ok
        /\ Len(prs) = 2
        /\ RetOf(r).val = << NoReferenceLine("https://gh/o/r/3"),
                             PostedLine("A-1", "https://gh/o/r/12") >>

-----------------------------------------------------------------------------
(* C6 *)

\* C6: two runs in a row over the same list that both see the same,
\* unchanging remote state return the same value.
C6_SameStateSameOutcome ==
    \A r \in 1..(Len(history) - 1) :
        ( /\ Finished(r) /\ Finished(r + 1)
          /\ history[r].steady /\ history[r + 1].steady
          /\ history[r].remote = history[r + 1].remote )
        => history[r].ret = history[r + 1].ret

\* two such runs, each of which posted a comment and saw a failure-free state
C6_Witness ==
    \E r \in 1..(Len(history) - 1) :
        /\ Finished(r) /\ Finished(r + 1)
        /\ history[r].steady /\ history[r + 1].steady
        /\ history[r].remote = history[r + 1].remote
        /\ RetOf(r).ok /\ RetOf(r + 1).ok
        /\ \E i \in 1..Len(prs) : IsPostedLine(RetOf(r).val[i])
        /\ \E i \in 1..Len(prs) : IsPostedLine(RetOf(r + 1).val[i])

-----------------------------------------------------------------------------
(* C7 *)

\* C7: parse_jira_ticket_number returns a key only when the text holds a
\* link [KEY](URL) whose URL's host is the tracker domain; a key linked to
\* any other host, one that starts with the domain included, gives none.
C7_DomainScoped ==
    (ret # None /\ Unwrap(ret) # None) =>
        \E i \in 1..Len(arg.links) :
            /\ arg.links[i].key = Unwrap(Unwrap(ret))
            /\ arg.links[i].host = arg.domain

-----------------------------------------------------------------------------
(* C8 *)

\* C8: contains_text(needle) is true exactly when some comment's
\* rendered_body holds needle as a substring, character for character; it is
\* false without comments; total plays no part.
C8_ContainsIffSubstring ==
    ret # None =>
        /\ Unwrap(ret) =
             (\E i \in 1..Len(arg.comments) : Occurs(arg.needle, arg.comments[i]))
        /\ arg.comments = <<>> => Unwrap(ret) = FALSE

\* found in the second of two comments only, of a response whose total is 0
C8_Witness ==
    /\ ret = Some(TRUE)
    /\ arg.total = 0
    /\ Len(arg.comments) = 2
    /\ ~Occurs(arg.needle, arg.comments[1])
    /\ arg.needle # ""

-----------------------------------------------------------------------------
(* C9 *)

\* C9: build_jira_comment fails exactly when the description is absent, with
\* an error whose message holds the pull request's URL; with a description,
\* an empty one included, it succeeds.
C9_FailsIffNoDescription ==
    ret # None =>
        /\ Unwrap(ret).ok <=> arg.body # None
        /\ ~Unwrap(ret).ok =>
             /\ Unwrap(ret).err.kind = "AutocommentError"
             /\ Occurs(arg.html_url, Unwrap(ret).err.cause)
             /\ Occurs(arg.html_url, ErrorDisplay(Unwrap(ret).err))

\* it failed for a pull request without description
C9_Witness ==
    /\ ret # None
    /\ arg.body = None
    /\ ~Unwrap(ret).ok
    /\ Unwrap(ret).err.cause =
         "Pull Request https://url/org/repo has an invalid description"

-----------------------------------------------------------------------------
(* C10 *)

CharAt(str, k) == SubSeq(str, k, k)

\* t is the part of body before its first newline (all of it without one),
\* less the whitespace at both ends
IsTrimmedFirstLine(t, body) ==
    \E n \in 0..Len(body) :
        /\ \A k \in 1..n : CharAt(body, k) # "\n"
        /\ n = Len(body) \/ CharAt(body, n + 1) = "\n"
        /\ \E a \in 0..n :
             /\ a + Len(t) <= n
             /\ SubSeq(body, a + 1, a + Len(t)) = t
             /\ \A k \in 1..a : IsSpace(CharAt(body, k))
             /\ \A k \in (a + Len(t) + 1)..n : IsSpace(CharAt(body, k))
             /\ t # "" => /\ ~IsSpace(CharAt(t, 1))
                          /\ ~IsSpace(CharAt(t, Len(t)))

TextRun(text) ==
    [version |-> None, type |-> "text", content |-> <<>>, text |-> Some(text),
     marks |-> <<>>, attrs |-> None]

IsParagraph(e) ==
    /\ e.type = "paragraph" /\ e.version = None /\ e.text = None
    /\ e.marks = <<>> /\ e.attrs = None

\* C10: with a description, the document is a root of version 1 with three
\* paragraphs: "Pull Request in {repository}: " and the title linked to the
\* pull request URL; the trimmed first line of the description; and
\* "Created at: {createdAt}".
C10_DocumentShape ==
    (ret # None /\ arg.body # None) =>
        /\ Unwrap(ret).ok
        /\ LET doc == Unwrap(ret).val.body
               p == doc.content
           IN  /\ doc.version = Some(1) /\ doc.type = "doc"
               /\ doc.text = None /\ doc.marks = <<>> /\ doc.attrs = None
               /\ Len(p) = 3
               /\ \A k \in 1..3 : IsParagraph(p[k])
               /\ Len(p[1].content) = 2
               /\ p[1].content[1] =
                    TextRun("Pull Request in " \o arg.full_name \o ": ")
               /\ p[1].content[2] =
                    [TextRun(arg.title) EXCEPT !.marks =
                       << [version |-> None, type |-> "link", content |-> <<>>,
                           text |-> None, marks |-> <<>>,
                           attrs |-> Some([href |-> Some(arg.html_url)])] >>]
               /\ Len(p[2].content) = 1
               /\ p[2].content[1].text # None
               /\ p[2].content[1] = TextRun(Unwrap(p[2].content[1].text))
               /\ IsTrimmedFirstLine(Unwrap(p[2].content[1].text),
                                     Unwrap(arg.body))
               /\ p[3].content = <<TextRun("Created at: " \o arg.created_at)>>

\* a description of several lines with whitespace around the first
C10_Witness ==
    /\ ret # None
    /\ arg.body = Some("  lead and trail \t\nsecond\nthird")
    /\ Unwrap(ret).ok
    /\ Unwrap(ret).val.body.content[2].content[1].text = Some("lead and trail")

-----------------------------------------------------------------------------
(* C11 *)

\* the successful post calls made for pull request i, all runs
OkPostsOf(i) ==
    {k \in 1..Len(calls) : calls[k].op = "post" /\ calls[k].ok /\ calls[k].pr = i}

\* the successful get calls made for pull request i in the runs after run r
LaterGets(r, i) ==
    {j \in 1..Len(calls) :
        calls[j].op = "get" /\ calls[j].ok /\ calls[j].pr = i /\ calls[j].run > r}

\* C11: after a run posted a comment for a pull request on ticket K, a later
\* run to which the tracker returns comments of K mentioning the pull
\* request's URL makes no post for it and reports the already-present line;
\* when every later read returns such comments, no comment is posted for the
\* pull request after that one.
C11_PostedThenPresent ==
    \A k \in 1..Len(calls) :
        (calls[k].op = "post" /\ calls[k].ok) =>
            LET i == calls[k].pr
                url == prs[i].html_url
                later == LaterGets(calls[k].run, i)
            IN  /\ \A j \in later :
                     Mentioned(calls[j].seen, url) =>
                        /\ calls[j].ticket_id = calls[k].ticket_id
                        /\ PostsFor(calls[j].run, i) = {}
                        /\ HasLine(calls[j].run, i) =>
                             LineOf(calls[j].run, i) =
                                 PresentLine(calls[k].ticket_id, url)
                /\ (\A j \in later : Mentioned(calls[j].seen, url))
                       => \A m \in OkPostsOf(i) : m <= k

\* the first run posted for a pull request, the tracker kept the comment with
\* the link's target after a comment that does not mention the URL, and the
\* second run returned the already-present line for it
C11_Witness ==
    \E i \in 1..Len(prs) :
        /\ client = "Default"
        /\ Len(history) = 2 /\ Finished(2) /\ RetOf(2).ok
        /\ \E k \in OkPostsOf(i) : calls[k].run = 1
        /\ RetOf(2).val[i] = PresentLine("A-1", prs[i].html_url)
        /\ \E j \in LaterGets(1, i) :
             /\ Len(calls[j].seen) = 2
             /\ ~Mentions[<<calls[j].seen[1], prs[i].html_url>>]
             /\ Mentions[<<calls[j].seen[2], prs[i].html_url>>]

-----------------------------------------------------------------------------
(* C12 *)

\* the successful get call of run r for pull request i returned comments
\* that do not mention the pull request's URL, and no post for it failed
ReadWithoutMention(r, i) ==
    /\ \E k \in CallsFor(r, i) :
          /\ calls[k].op = "get" /\ calls[k].ok
          /\ ~Mentioned(calls[k].seen, prs[i].html_url)
    /\ \A k \in PostsFor(r, i) : calls[k].ok

\* pull request i of run r was processed
Processed(r, i) == (r = run /\ phase = "running") => i < idx

\* C12: two pull requests of one run that link the same ticket, each reading
\* at its own turn comments that do not mention its own URL, both post one
\* comment on that ticket and both give the posted line; what the first
\* wrote does not stop the second.
C12_NoDedupAcrossPullRequests ==
    \A r \in 1..Len(history) :
        \A i, j \in 1..Len(prs) :
            ( /\ i < j
              /\ ExpectedTicket[prs[i].html_url] # None
              /\ ExpectedTicket[prs[i].html_url] = ExpectedTicket[prs[j].html_url]
              /\ ReadWithoutMention(r, i) /\ ReadWithoutMention(r, j) )
            => LET K == Unwrap(ExpectedTicket[prs[i].html_url])
               IN  \A n \in {i, j} :
                      /\ Processed(r, n)
                      /\ Cardinality(PostsFor(r, n)) = 1
                      /\ \A k \in PostsFor(r, n) : calls[k].ticket_id = K
                      /\ HasLine(r, n) =>
                           LineOf(r, n) = PostedLine(K, prs[n].html_url)

\* a run returned two posted lines for ticket A-1, and the read made for the
\* second pull request returned the comment posted for the first
C12_Witness ==
    \E r \in 1..Len(history) :
        /\ client = "Default"
        /\ Finished(r) /\ RetOf(r).ok
        /\ Len(prs) = 2
        /\ RetOf(r).val = << PostedLine("A-1", prs[1].html_url),
                             PostedLine("A-1", prs[2].html_url) >>
        /\ \E k \in CallsFor(r, 1), m \in CallsFor(r, 2) :
             /\ calls[k].op = "get" /\ calls[k].seen = <<>>
             /\ calls[m].op = "get" /\ Len(calls[m].seen) = 1

-----------------------------------------------------------------------------
(* C13 *)

\* key is one or more word characters, a hyphen, one or more digits
IsIssueKey(key) ==
    \E h \in 2..(Len(key) - 1) :
        /\ CharAt(key, h) = "-"
        /\ \A k \in 1..(h - 1) : IsWord(CharAt(key, k))
        /\ \A k \in (h + 1)..Len(key) : IsDigit(CharAt(key, k))

StartsWith(str, prefix) ==
    Len(prefix) <= Len(str) /\ SubSeq(str, 1, Len(prefix)) = prefix

\* a link with an issue key as text, to a URL on the domain with a path
LinksTracker(l, domain) ==
    IsIssueKey(l.key) /\ l.host = domain /\ l.tail # ""

\* a link whose text is no issue key, or whose host does not begin as the
\* domain does
LinksElsewhere(l, domain) ==
    ~IsIssueKey(l.key) \/ ~StartsWith(l.host, domain)

\* C13: of the links of the text, the key of the leftmost link to the
\* tracker domain is returned, whatever follows it; a text none of whose
\* links is to the tracker domain, the empty text included, gives none.
C13_LeftmostMatchOnly ==
    ret # None =>
        /\ \A i \in 1..Len(arg.links) :
             ( /\ LinksTracker(arg.links[i], arg.domain)
               /\ \A j \in 1..(i - 1) : LinksElsewhere(arg.links[j], arg.domain) )
             => Unwrap(ret) = Some(arg.links[i].key)
        /\ (\A i \in 1..Len(arg.links) : LinksElsewhere(arg.links[i], arg.domain))
             => Unwrap(ret) = None

\* two links to the tracker domain with different keys: the first is returned
C13_Witness ==
    /\ ret # None
    /\ Len(arg.links) = 2
    /\ LinksTracker(arg.links[1], arg.domain)
    /\ LinksTracker(arg.links[2], arg.domain)
    /\ arg.links[1].key = "B-2" /\ arg.links[2].key = "A-1"
    /\ Unwrap(ret) = Some("B-2")

-----------------------------------------------------------------------------
(* C14 *)

\* pull request i has no description, or one without a link to a ticket on
\* the tracker's domain
WithoutReference(i) ==
    prs[i].body = None \/ ExpectedTicket[prs[i].html_url] = None

\* C14: no get_jira_comments and no post_jira_comment call is made for a
\* pull request without description or without tracker reference.
C14_NoCallWithoutReference ==
    /\ \A k \in 1..Len(calls) : ~WithoutReference(calls[k].pr)
    /\ \A r \in 1..Len(history), i \in 1..Len(prs) :
         WithoutReference(i) => CallsFor(r, i) = {}

\* a run went through a pull request without reference and one without
\* description, and made no call
C14_Witness ==
    \E r \in 1..Len(history) :
        /\ Finished(r)
        /\ Len(prs) = 2
        /\ prs[1].body # None /\ ExpectedTicket[prs[1].html_url] = None
        /\ prs[2].body = None
        /\ RetOf(r) = Err([kind |-> "AutocommentError",
                           cause |-> "PR https://gh/o/r/4 does not have a description!"])
        /\ CallsIn(r) = {}

-----------------------------------------------------------------------------
(* C15 *)

GetsFor(r, i) == {k \in CallsFor(r, i) : calls[k].op = "get"}

\* C15: the calls of a run follow the order of the pull requests; a pull
\* request has at most one get and at most one post call in a run; and the
\* call just before a post is the successful get of the same pull request,
\* for the same ticket, whose comments did not mention the pull request's URL.
C15_SequentialNoRetry ==
    /\ \A k, j \in 1..Len(calls) :
         k < j =>
            /\ calls[k].run <= calls[j].run
            /\ calls[k].run = calls[j].run => calls[k].pr <= calls[j].pr
    /\ \A r \in 1..Len(history), i \in 1..Len(prs) :
         /\ Cardinality(GetsFor(r, i)) <= 1
         /\ Cardinality(PostsFor(r, i)) <= 1
    /\ \A k \in 1..Len(calls) :
         calls[k].op = "post" =>
            /\ k > 1
            /\ calls[k - 1].op = "get" /\ calls[k - 1].ok
            /\ calls[k - 1].run = calls[k].run
            /\ calls[k - 1].pr = calls[k].pr
            /\ calls[k - 1].ticket_id = calls[k].ticket_id
            /\ ~Mentioned(calls[k - 1].seen, prs[calls[k].pr].html_url)

\* a post failed after a read that returned a comment, and the run ended
\* there: the post was the last call, made once
C15_Witness ==
    \E k \in 2..Len(calls) :
        /\ calls[k].op = "post" /\ ~calls[k].ok
        /\ calls[k - 1].op = "get" /\ calls[k - 1].seen # <<>>
        /\ k = Len(calls)
        /\ Finished(calls[k].run)
        /\ phase = "idle"

====
